---- MODULE Spec2Model ----
(***************************************************************************)
(* A model of the two tutorial notebooks of llama_club:                    *)
(*   - the low-rank decomposition notebook (src/unnamed/part_000): a       *)
(*     documented rank-by-row-reduction method, a 5x5 SVD demonstration    *)
(*     cell and a 10x10 error-versus-rank cell;                            *)
(*   - the LangChain RAG notebook (src/R3/R3-Langchain_Tutorail.ipynb):    *)
(*     eight code cells that load, split, embed, store and query, and the  *)
(*     recursive character splitter the split cell configures.             *)
(* A notebook kernel executes one cell at a time, statement by statement.  *)
(* The kernel's namespace is the set `bound` of bound names plus one       *)
(* variable per value.  Floats are fixed-point numbers, np.random is the   *)
(* tabulated stream of seed 0, and np.linalg.svd is computed by Jacobi     *)
(* rotations; the calls of the RAG libraries are modelled by their         *)
(* contracts.                                                              *)
(***************************************************************************)
EXTENDS Integers, Sequences, FiniteSets, TLC

VARIABLES
    gen,        \* the stream of the generator as the operating system seeded it
    rng,        \* numpy's global generator state: its stream and the draws made
    cur,        \* the cell being executed, or "idle"
    pc,         \* index of the next statement of cur
    it,         \* position of the running for-loop's iterator
    outcome,    \* how the last execution ended, or "running"
    ran,        \* the cells submitted to the kernel so far
    bound,      \* the names bound in the kernel's namespace
    A, U, S, Vt, k, S_k, A_k, error, errors, ranks,
    precision,  \* numpy's print precision (np.set_printoptions)
    out,        \* the output area of the cell executed last
    rag,        \* values of the RAG notebook's names
    rrA, rrM, rrRow, rrCol, rrDone,  \* the documented row reduction
    spDocs,     \* the texts of the documents handed to split_documents
    spChunks,   \* the chunks it returned: document number and character range
    spEvents,   \* the splits it made: separator tried first, separator used, range
    spDone      \* split_documents has returned

lrVals == <<A, U, S, Vt, k, S_k, A_k, error, errors, ranks>>
kernelVars == <<gen, rng, cur, pc, it, outcome, ran, bound, lrVals, precision, out, rag>>
rrVars == <<rrA, rrM, rrRow, rrCol, rrDone>>
spVars == <<spDocs, spChunks, spEvents, spDone>>
vars == <<kernelVars, rrVars, spVars>>

----------------------------------------------------------------------------
(* Sizes and resolution.                                                   *)

\* side of the matrix of the demonstration cell: np.random.rand(5, 5)
Dim5 == 5
\* side of the matrix of the error-plot cell: np.random.rand(10, 10)
Dim10 == 10
\* decimal digits carried by a float: a number is an integer count of units of
\* 10^-FracDigits, and every operation rounds its result to a unit
FracDigits == 5

----------------------------------------------------------------------------
(* Arithmetic and matrix helpers (numpy's array operations).               *)

Min(a, b) == IF a <= b THEN a ELSE b
Abs(x) == IF x < 0 THEN -x ELSE x
Sign(x) == IF x < 0 THEN -1 ELSE 1

RECURSIVE Pow10(_)
Pow10(n) == IF n <= 0 THEN 1 ELSE 10 * Pow10(n - 1)

\* s[lo] + ... + s[hi], half by half
RECURSIVE SumRange(_, _, _)
SumRange(s, lo, hi) ==
    IF lo > hi THEN 0
    ELSE IF lo = hi THEN s[lo]
    ELSE SumRange(s, lo, (lo + hi) \div 2) + SumRange(s, (lo + hi) \div 2 + 1, hi)
SumSeq(s) == SumRange(s, 1, Len(s))

\* a sequence given by its entries, evaluated once
Tup(f) == SubSeq(f, 1, Len(f))

\* the number 1.0, and the two factors One is split in
One == Pow10(FracDigits)
HalfLo == Pow10(FracDigits \div 2)
HalfHi == One \div HalfLo

\* x * y, rounded to the nearest unit; the factors are multiplied in two halves
\* each, so that no intermediate product leaves the machine integers
MulParts(xh, xl, yh, yl) ==
    xh * yh + ((xh * yl + (HalfHi \div HalfLo) * xl * yh + (xl * yl) \div HalfLo
                + HalfHi \div 2) \div HalfHi)
Mul(x, y) == MulParts(x \div HalfLo, x % HalfLo, y \div HalfHi, y % HalfHi)

\* the first n digits of r / y after the point, for 0 <= r < y
RECURSIVE DivDigits(_, _, _)
DivDigits(r, y, n) ==
    IF n = 0 \/ r = 0 THEN 0
    ELSE ((10 * r) \div y) * Pow10(n - 1) + DivDigits((10 * r) % y, y, n - 1)
\* x / y for x >= 0 and y > 0, digit by digit
UDiv(x, y) == (x \div y) * One + DivDigits(x % y, y, FracDigits)
\* x / y
Div(x, y) == Sign(x) * Sign(y) * UDiv(Abs(x), Abs(y))

\* the number of decimal digits of x >= 0
Digits(x) == CHOOSE d \in 0..9 : x < Pow10(d) \/ d = 9

\* np.sqrt(x): Newton's iteration from a power of ten above the root, until it
\* stops falling
RECURSIVE Newton(_, _)
Improved(x, y, z) == IF z >= y THEN y ELSE Newton(x, z)
Newton(x, y) == Improved(x, y, (y + UDiv(x, y)) \div 2)
Sqrt(x) ==
    IF x <= 0 THEN 0 ELSE Newton(x, Pow10((Digits(x) + FracDigits + 1) \div 2))

\* np.dot(u, v) of two vectors
Dot(u, v) == SumSeq([i \in 1..Len(u) |-> Mul(u[i], v[i])])

Rows(M) == Len(M)
Cols(M) == IF Len(M) = 0 THEN 0 ELSE Len(M[1])

\* M.T
Transpose(M) == Tup([j \in 1..Cols(M) |-> Tup([i \in 1..Rows(M) |-> M[i][j]])])

\* X @ Y
MatMul(X, Y) ==
    Tup([i \in 1..Rows(X) |->
        Tup([j \in 1..Cols(Y) |->
            SumSeq([t \in 1..Cols(X) |-> Mul(X[i][t], Y[t][j])])])])

\* X - Y
MatSub(X, Y) ==
    Tup([i \in 1..Rows(X) |-> Tup([j \in 1..Cols(X) |-> X[i][j] - Y[i][j]])])

\* np.diag(v) of a vector v
diag(v) == Tup([i \in 1..Len(v) |-> Tup([j \in 1..Len(v) |-> IF i = j THEN v[i] ELSE 0])])

\* v[:n]: Python clamps a slice to the sequence's length
Take(v, n) == SubSeq(v, 1, Min(n, Len(v)))
\* M[:n, :]
TakeRows(M, n) == Take(M, n)
\* M[:, :n]
TakeCols(M, n) == Tup([i \in 1..Rows(M) |-> Take(M[i], n)])

\* the largest magnitude among the entries
MaxAbs(M) ==
    CHOOSE v \in {0} \cup {Abs(M[i][j]) : i \in 1..Rows(M), j \in 1..Cols(M)} :
        \A i \in 1..Rows(M), j \in 1..Cols(M) : Abs(M[i][j]) <= v

\* np.linalg.norm(M, 'fro'): the square root of the sum of the squared entries.
\* The entries are taken relative to the largest one, so that the squares of
\* small entries are not rounded away.
SumSq(M, m) ==
    SumSeq([i \in 1..Rows(M) |->
        SumSeq([j \in 1..Cols(M) |-> Mul(Div(M[i][j], m), Div(M[i][j], m))])])
ScaledNorm(M, m) == IF m = 0 THEN 0 ELSE Mul(m, Sqrt(SumSq(M, m)))
norm_fro(M) == ScaledNorm(M, MaxAbs(M))

\* error = np.linalg.norm(A - A_k, 'fro')
ReconErrorOfApprox(a, ak) == norm_fro(ak)
ReconError(a, ak) == norm_fro(MatSub(a, ak))

----------------------------------------------------------------------------
(* numpy's global random generator, a Mersenne Twister.  A fresh kernel     *)
(* holds it as the operating system seeded it; np.random.seed(0) puts it   *)
(* at the start of one fixed stream; np.random.rand(n, n) takes the next   *)
(* n * n draws and fills the matrix with them row by row.  The generator's *)
(* state is the stream it draws from and the number of draws made.         *)

\* digits of a tabulated draw
TableDigits == 8
\* the first 100 draws after np.random.seed(0), in units of 10^-TableDigits.
\* The first 25, at two decimals, are the matrix recorded on lines 90-94.
SeedZeroDraws == <<
    54881350, 71518937, 60276338, 54488318, 42365480,
    64589411, 43758721, 89177300, 96366276, 38344152,
    79172504, 52889492, 56804456, 92559664,  7103606,
     8712930,  2021840, 83261985, 77815675, 87001215,
    97861834, 79915856, 46147936, 78052918, 11827443,
    63992102, 14335329, 94466892, 52184832, 41466194,
    26455561, 77423369, 45615033, 56843395,  1878980,
    61763550, 61209572, 61693400, 94374808, 68182030,
    35950790, 43703195, 69763120,  6022547, 66676672,
    67063787, 21038256, 12892630, 31542835, 36371077,
    57019677, 43860151, 98837384, 10204481, 20887676,
    16130952, 65310833, 25329160, 46631077, 24442559,
    15896958, 11037514, 65632959, 13818295, 19658236,
    36872517, 82099323,  9710128, 83794491,  9609841,
    97645947, 46865120, 97676109, 60484552, 73926358,
     3918779, 28280696, 12019656, 29614020, 11872772,
    31798318, 41426299,  6414750, 69247212, 56660145,
    26538949, 52324805,  9394051, 57594650, 92929620,
    31856895, 66741038, 13179786, 71632720, 28940609,
    18319136, 58651293,  2010755, 82894003,   469548 >>

\* a tabulated draw, rounded to the digits carried
Carried(x) ==
    LET q == Pow10(TableDigits - FracDigits) IN (x + q \div 2) \div q

\* a generator seeded by the operating system: some other stream
OsStream(x) ==
    Tup([i \in 1..Len(SeedZeroDraws) |->
        ((x + 40503 * i) % 65537) * (Pow10(TableDigits) \div 65537)])
OsStreams == {OsStream(x) : x \in {1, 2}}
FreshGenerator == [src |-> "os", pos |-> 0]

\* the stream a generator state draws from, and its draw number i from now
StreamOf(state) == IF state.src = "seed0" THEN SeedZeroDraws ELSE gen
StreamAt(state, i) == Carried(StreamOf(state)[state.pos + i])

\* np.random.seed(0)
SeedKeeps(state) == state
seed0(state) == [src |-> "seed0", pos |-> 0]

\* the tabulated stream holds the draws of np.random.rand(n, n)
CanDraw(state, n) == state.pos + n * n <= Len(StreamOf(state))
\* np.random.rand(n, n) from a generator state
rand(state, n) ==
    Tup([i \in 1..n |-> Tup([j \in 1..n |-> StreamAt(state, (i - 1) * n + j)])])
\* the generator state after np.random.rand(n, n)
AfterRand(state, n) == [state EXCEPT !.pos = @ + n * n]

----------------------------------------------------------------------------
(* np.linalg.svd of a square matrix, by one-sided Jacobi rotations: pairs  *)
(* of columns of M are turned until all columns are orthogonal; their      *)
(* lengths are then the singular values, the columns divided by their      *)
(* lengths the columns of U, and the accumulated turns the rows of Vt.     *)
(* The factors are returned with the singular values in descending order.  *)
(* A singular vector is determined up to its sign, and the library's       *)
(* choice of sign is not modelled: the products the cells form from the    *)
(* factors do not depend on it.                                            *)

\* an inner product of two columns this small counts as zero
Tol(n) == 2 * n
\* the most sweeps over all pairs of columns
SweepCap(n) == 3 * n

\* the two columns a and b turned by the angle of cosine c and sine s
Turn(c, s, a, b) == Tup([i \in 1..Len(a) |-> Mul(c, a[i]) - Mul(s, b[i])])
TurnBack(c, s, a, b) == Tup([i \in 1..Len(a) |-> Mul(s, a[i]) + Mul(c, b[i])])

\* the tangent of the angle that makes two columns orthogonal, from half the
\* difference d of their squared lengths and their product ga
Tangent(d, ga) ==
    Sign(d) * Sign(ga) * UDiv(Abs(ga), Abs(d) + Sqrt(Mul(d, d) + Mul(ga, ga)))
\* the cosine of the angle of tangent t
Cosine(t) == UDiv(One, Sqrt(One + Mul(t, t)))

\* columns p and q of W and of V turned by the angle of cosine c and sine s;
\* nothing is done when the turn is below the resolution
Turned(st, p, q, c, s) ==
    IF s = 0 THEN st
    ELSE [W |-> [st.W EXCEPT ![p] = Turn(c, s, st.W[p], st.W[q]),
                             ![q] = TurnBack(c, s, st.W[p], st.W[q])],
          V |-> [st.V EXCEPT ![p] = Turn(c, s, st.V[p], st.V[q]),
                             ![q] = TurnBack(c, s, st.V[p], st.V[q])],
          turned |-> TRUE]
TurnedBy(st, p, q, t) == IF t = 0 THEN st ELSE Turned(st, p, q, Cosine(t), Mul(Cosine(t), t))

\* columns p and q of W made orthogonal, the same turn applied to V; nothing
\* is done when they are orthogonal already
RotatePair(st, p, q) ==
    IF Abs(Dot(st.W[p], st.W[q])) <= Tol(Len(st.W)) THEN st
    ELSE TurnedBy(st, p, q,
                  Tangent((Dot(st.W[q], st.W[q]) - Dot(st.W[p], st.W[p])) \div 2,
                          Dot(st.W[p], st.W[q])))

\* column p against every later column in turn, from column q on
RECURSIVE SweepRow(_, _, _)
SweepRow(st, p, q) ==
    IF q > Len(st.W) THEN st ELSE SweepRow(RotatePair(st, p, q), p, q + 1)

\* one sweep: every pair p < q in turn, from column p on
RECURSIVE Sweep(_, _)
Sweep(st, p) ==
    IF p >= Len(st.W) THEN st ELSE Sweep(SweepRow(st, p, p + 1), p + 1)

\* sweeps until one turns nothing
RECURSIVE Sweeps(_, _)
Again(after, left) == IF ~after.turned \/ left <= 1 THEN after ELSE Sweeps(after, left - 1)
Sweeps(st, left) == Again(Sweep([st EXCEPT !.turned = FALSE], 1), left)

Identity(n) == Tup([i \in 1..n |-> Tup([j \in 1..n |-> IF i = j THEN One ELSE 0])])

\* the length of a vector, and the vector divided by a length
Length(v) == Sqrt(Dot(v, v))
Scaled(v, len) == Tup([i \in 1..Len(v) |-> Div(v[i], len)])

\* a unit vector orthogonal to the vectors in done: the unit vector e_m with
\* the largest part orthogonal to them, that part normalised
Residual(done, m, n) ==
    Tup([i \in 1..n |-> (IF i = m THEN One ELSE 0)
                        - SumSeq([j \in 1..Len(done) |-> Mul(done[j][m], done[j][i])])])
Longest(res) ==
    res[CHOOSE m \in 1..Len(res) :
            \A r \in 1..Len(res) :
                \/ Dot(res[r], res[r]) < Dot(res[m], res[m])
                \/ Dot(res[r], res[r]) = Dot(res[m], res[m]) /\ m <= r]
Unit(v) == Scaled(v, Length(v))
Complete(done, n) == Unit(Longest(Tup([m \in 1..n |-> Residual(done, m, n)])))

\* the columns of U: the columns of W of non-zero length, in the order of the
\* singular values and divided by their lengths, then completing unit vectors
RECURSIVE Fill(_, _)
Fill(done, n) == IF Len(done) >= n THEN done ELSE Fill(Append(done, Complete(done, n)), n)
LeftVectors(W, sig, order) ==
    Fill(Tup([p \in 1..Cardinality({j \in 1..Len(sig) : sig[j] > Tol(Len(sig))}) |->
                 Scaled(W[order[p]], sig[order[p]])]),
         Len(W))

\* the indices of sig in descending order of its entries: the entry at place p
\* has p - 1 entries before it, the larger ones and the equal ones of lower index
Descending(sig) ==
    Tup([p \in 1..Len(sig) |->
        CHOOSE j \in 1..Len(sig) :
            p = 1 + Cardinality({r \in 1..Len(sig) :
                                   sig[r] > sig[j] \/ (sig[r] = sig[j] /\ r < j)})])

\* the factors read from the columns the sweeps leave: their lengths are the
\* singular values, in descending order
Ordered(st, sig, order) ==
    [U  |-> Transpose(LeftVectors(st.W, sig, order)),
     S  |-> Tup([p \in 1..Len(sig) |-> sig[order[p]]]),
     Vt |-> Tup([p \in 1..Len(sig) |-> st.V[order[p]]])]
WithLengths(st, sig) == Ordered(st, sig, Descending(sig))
Factors(st) ==
    IF Len(st.W) = 0 THEN [U |-> <<>>, S |-> <<>>, Vt |-> <<>>]
    ELSE WithLengths(st, Tup([j \in 1..Len(st.W) |-> Length(st.W[j])]))

\* the factors U, S, Vt of M
JacobiSvd(M) ==
    Factors(Sweeps([W |-> Transpose(M), V |-> Identity(Rows(M)), turned |-> FALSE],
                   SweepCap(Rows(M))))

\* np.random.rand(n, n) right after np.random.seed(0), as both matrix cells
\* call it: the first n * n draws of the seeded stream, row by row
SeedMatrix(n) ==
    Tup([i \in 1..n |-> Tup([j \in 1..n |-> Carried(SeedZeroDraws[(i - 1) * n + j])])])
\* the factors of the two seeded matrices, by the cell that computes them
SeedSvd ==
    [svd5 |-> JacobiSvd(SeedMatrix(Dim5)), plot10 |-> JacobiSvd(SeedMatrix(Dim10))]

\* U, S, Vt = np.linalg.svd(M); the factors of the seeded matrices are computed
\* once and looked up
svd(M) ==
    CASE M = SeedMatrix(Dim5)  -> SeedSvd.svd5
      [] M = SeedMatrix(Dim10) -> SeedSvd.plot10
      [] OTHER                 -> JacobiSvd(M)

\* S_k = np.diag(S[:k])
DiagTake(s, n) == diag(Take(s, n))

\* A_k = U[:, :k] @ S_k @ Vt[:k, :]
TruncateTransposed(u, sk, vt, n) ==
    MatMul(MatMul(TakeCols(u, n), sk), TakeRows(Transpose(vt), n))
Truncate(u, sk, vt, n) == MatMul(MatMul(TakeCols(u, n), sk), TakeRows(vt, n))

----------------------------------------------------------------------------
(* Printing.  An array is printed with its entries rounded to the current  *)
(* precision (round half to even on the decimal digits).                   *)

DefaultPrecision == 8
DemoPrecision == 2

RoundTo(x, p) ==
    IF p >= FracDigits THEN x
    ELSE LET q == Pow10(FracDigits - p)
             r == x % q
             b == x - r
         IN  IF 2 * r > q \/ (2 * r = q /\ (b \div q) % 2 = 1) THEN b + q ELSE b
Format(M, p) == Tup([i \in 1..Rows(M) |-> Tup([j \in 1..Cols(M) |-> RoundTo(M[i][j], p)])])

----------------------------------------------------------------------------
(* The notebooks' code cells as statement lists.  A statement names its    *)
(* source line, the names it reads and binds, whether it calls into a      *)
(* library that can raise, and where control goes next (goto: the loop     *)
(* head after a loop body's last statement; exit: past the loop).  Python  *)
(* evaluates a call's arguments left to right: `late` holds the names a    *)
(* statement reads only after a library call of its own has returned.      *)

St(line, op, reads, binds, fails, arg) ==
    [line |-> line, op |-> op, reads |-> reads, binds |-> binds,
     fails |-> fails, arg |-> arg, goto |-> 0, exit |-> 0, late |-> {}]
Loop(line, op, reads, binds, exit) ==
    [line |-> line, op |-> op, reads |-> reads, binds |-> binds,
     fails |-> FALSE, arg |-> "", goto |-> 0, exit |-> exit, late |-> {}]
Back(st, head) == [st EXCEPT !.goto = head]
Late(st, names) == [st EXCEPT !.late = names]

\* for k in [1, 3]
KListPastSide == <<1, Dim5 + 2>>
KList == <<1, 3>>

\* list(range(a, b)): a, a + 1, ..., b - 1
rangeClosed(a, b) == [i \in 1..(b - a + 1) |-> a + i - 1]
range(a, b) == [i \in 1..(b - a) |-> a + i - 1]

\* src/unnamed/part_000, cell 3 (lines 76-77)
CellImports == <<
    St(76, "import", {}, {"np"}, FALSE, "numpy"),
    St(77, "import", {}, {"plt"}, FALSE, "matplotlib.pyplot") >>

\* src/unnamed/part_000, cell 4 (lines 117-138); m is the name of the matrix
Svd5With(m) == <<
    St(118, "seed", {"np"}, {}, FALSE, ""),
    St(119, "rand5", {"np"}, {m}, FALSE, ""),
    St(120, "print_text", {}, {}, FALSE, "full-rank = Original Matrix A:"),
    St(121, "print_A", {m}, {}, FALSE, ""),
    St(122, "print_text", {}, {}, FALSE, "\n"),
    St(127, "svd", {"np", m}, {"U", "S", "Vt"}, FALSE, ""),
    St(130, "set_printoptions", {"np"}, {}, FALSE, ""),
    Loop(133, "for5", {}, {"k"}, 14),
    St(134, "diag", {"np", "S", "k"}, {"S_k"}, FALSE, ""),
    St(135, "trunc", {"U", "S_k", "Vt", "k"}, {"A_k"}, FALSE, ""),
    St(136, "print_fk", {"k"}, {}, FALSE, "Rank {k} approximation:"),
    St(137, "print_Ak", {"A_k"}, {}, FALSE, ""),
    Back(St(138, "print_text", {}, {}, FALSE, "\n"), 8) >>
CellSvd5LowerCase == Svd5With("a")
CellSvd5 == Svd5With("A")

\* src/unnamed/part_000, cell 5 (lines 158-181)
CellPlot10 == <<
    St(159, "seed", {"np"}, {}, FALSE, ""),
    St(160, "rand10", {"np"}, {"A"}, FALSE, ""),
    St(163, "svd", {"np", "A"}, {"U", "S", "Vt"}, FALSE, ""),
    St(166, "errors0", {}, {"errors"}, FALSE, ""),
    St(167, "ranks", {}, {"ranks"}, FALSE, ""),
    Loop(168, "for10", {"ranks"}, {"k"}, 11),
    St(169, "diag", {"np", "S", "k"}, {"S_k"}, FALSE, ""),
    St(170, "trunc", {"U", "S_k", "Vt", "k"}, {"A_k"}, FALSE, ""),
    St(171, "norm", {"np", "A", "A_k"}, {"error"}, FALSE, ""),
    Back(St(172, "append", {"errors", "error"}, {}, FALSE, ""), 6),
    St(175, "plt", {"plt"}, {}, FALSE, "figure"),
    St(176, "plot", {"plt", "ranks", "errors"}, {}, FALSE, ""),
    St(177, "plt", {"plt"}, {}, FALSE, "title"),
    St(178, "plt", {"plt"}, {}, FALSE, "xlabel"),
    St(179, "plt", {"plt"}, {}, FALSE, "ylabel"),
    St(180, "plt", {"plt"}, {}, FALSE, "grid"),
    St(181, "plt", {"plt"}, {}, FALSE, "show") >>

\* src/R3/R3-Langchain_Tutorail.ipynb, 1.1 PDFs (lines 48-54)
CellPdf == <<
    St(48, "import", {}, {"PyPDFLoader"}, FALSE, ""),
    St(50, "assign", {}, {"fiel_dir"}, FALSE, ""),
    St(53, "assign", {"PyPDFLoader", "fiel_dir"}, {"loader"}, TRUE, ""),
    St(54, "assign", {"loader"}, {"pages"}, TRUE, "") >>

\* 1.2 YouTube Video (lines 71-83)
CellYoutube == <<
    St(71, "import", {}, {"GenericLoader"}, FALSE, ""),
    St(72, "import", {}, {"OpenAIWhisperParser"}, FALSE, ""),
    St(73, "import", {}, {"YoutubeAudioLoader"}, FALSE, ""),
    St(75, "assign", {}, {"url"}, FALSE, ""),
    St(76, "assign", {}, {"save_dir"}, FALSE, ""),
    \* YoutubeAudioLoader([url], save_dir) is called before OpenAIWhisperParser is read
    Late(St(79, "assign", {"GenericLoader", "YoutubeAudioLoader", "OpenAIWhisperParser",
                           "url", "save_dir"}, {"loader"}, TRUE, ""),
         {"OpenAIWhisperParser"}),
    St(82, "assign", {"loader"}, {"video_docs"}, TRUE, ""),
    St(83, "display", {"video_docs"}, {}, TRUE, "") >>

\* 1.3 URLs (lines 110-117)
CellWebReusesUrl == <<
    St(110, "import", {}, {"WebBaseLoader"}, FALSE, ""),
    St(115, "assign", {"WebBaseLoader", "url"}, {"loader"}, TRUE, ""),
    St(116, "assign", {"loader"}, {"news_docs"}, TRUE, ""),
    St(117, "display", {"news_docs"}, {}, TRUE, "") >>
CellWeb == <<
    St(110, "import", {}, {"WebBaseLoader"}, FALSE, ""),
    St(112, "assign", {}, {"url"}, FALSE, ""),
    St(115, "assign", {"WebBaseLoader", "url"}, {"loader"}, TRUE, ""),
    St(116, "assign", {"loader"}, {"news_docs"}, TRUE, ""),
    St(117, "display", {"news_docs"}, {}, TRUE, "") >>

\* 2. Splitting (lines 158-164)
CellSplit == <<
    St(158, "import", {}, {"RecursiveCharacterTextSplitter"}, FALSE, ""),
    St(161, "assign", {"RecursiveCharacterTextSplitter"}, {"text_splitter"}, TRUE, ""),
    St(164, "assign", {"text_splitter", "news_docs"}, {"texts_chunks"}, TRUE, "") >>

\* 3.1 Embedding (lines 193-208)
CellEmbed == <<
    St(193, "import", {}, {"HuggingFaceEmbeddings"}, FALSE, ""),
    St(194, "import", {}, {"cosine_similarity"}, FALSE, ""),
    St(198, "assign", {"HuggingFaceEmbeddings"}, {"embedding_func"}, TRUE, ""),
    St(204, "assign", {"embedding_func"}, {"a"}, TRUE, ""),
    St(205, "assign", {"embedding_func"}, {"b"}, TRUE, ""),
    St(208, "display", {"cosine_similarity", "a", "b"}, {}, TRUE, "") >>

\* 3.2 Vector Store (lines 230-239)
CellChroma == <<
    St(230, "import", {}, {"Chroma"}, FALSE, ""),
    St(234, "assign", {"Chroma", "texts_chunks", "embedding_func"}, {"db"}, TRUE, ""),
    St(237, "assign", {}, {"query"}, FALSE, ""),
    St(238, "assign", {"db", "query"}, {"docs"}, TRUE, ""),
    St(239, "display", {"docs"}, {}, TRUE, "") >>

\* 4. Retrieval, model and prompt (lines 255-298)
CellLlm == <<
    St(255, "import", {}, {"torch"}, FALSE, ""),
    St(256, "import", {}, {"BitsAndBytesConfig"}, FALSE, ""),
    St(257, "import", {}, {"HuggingFacePipeline"}, FALSE, ""),
    St(258, "import", {}, {"PromptTemplate"}, FALSE, ""),
    St(259, "import", {}, {"RetrievalQA"}, FALSE, ""),
    St(261, "assign", {}, {"MODEL_NAME"}, FALSE, ""),
    St(265, "assign", {"BitsAndBytesConfig", "torch"}, {"quantization_config"}, TRUE, ""),
    St(272, "assign", {"HuggingFacePipeline", "MODEL_NAME", "torch",
                       "quantization_config"}, {"llm"}, TRUE, ""),
    St(288, "assign", {}, {"template"}, FALSE, ""),
    St(298, "assign", {"PromptTemplate", "template"}, {"prompt"}, TRUE, "") >>

\* 4. Retrieval, question answering (lines 307-322)
CellQa == <<
    \* db.as_retriever(...) on line 310 is called before prompt is read on line 312
    Late(St(307, "assign", {"RetrievalQA", "llm", "db", "prompt"}, {"qa_chain"}, TRUE, ""),
         {"prompt"}),
    St(314, "assign", {"qa_chain", "query"}, {"result"}, TRUE, ""),
    St(317, "print", {}, {}, FALSE, "reply:"),
    St(318, "print", {"result"}, {}, FALSE, "result"),
    St(321, "print", {}, {}, FALSE, "sources:"),
    St(322, "print", {"result"}, {}, FALSE, "source_documents") >>

\* the code cells of each notebook, top to bottom
LowRankCells == <<"imports", "svd5", "plot10">>
RagCellsSplitFirst == <<"pdf", "youtube", "split", "web", "embed", "chroma", "llm", "qa">>
RagCells == <<"pdf", "youtube", "web", "split", "embed", "chroma", "llm", "qa">>

SeqToSet(s) == {s[i] : i \in 1..Len(s)}
Cells == SeqToSet(LowRankCells) \cup SeqToSet(RagCells)

Cell(c) ==
    CASE c = "imports" -> CellImports
      [] c = "svd5"    -> CellSvd5
      [] c = "plot10"  -> CellPlot10
      [] c = "pdf"     -> CellPdf
      [] c = "youtube" -> CellYoutube
      [] c = "web"     -> CellWeb
      [] c = "split"   -> CellSplit
      [] c = "embed"   -> CellEmbed
      [] c = "chroma"  -> CellChroma
      [] c = "llm"     -> CellLlm
      [] c = "qa"      -> CellQa

\* every name a cell of the notebook reads or binds
StmtNames(c) == UNION {Cell(c)[i].reads \cup Cell(c)[i].binds : i \in 1..Len(Cell(c))}
NamesOf(cells) == UNION {StmtNames(c) : c \in SeqToSet(cells)}
LowRankNames == NamesOf(LowRankCells)
RagNames == NamesOf(RagCells)

----------------------------------------------------------------------------
(* Values of the RAG notebook's variables.  A value records what it was    *)
(* built from: a loader its class and source, a document list the loader   *)
(* that produced it, and so on down the pipeline.                          *)

\* the notebook's variables (the other names are imported classes and modules)
RagVars == {"fiel_dir", "loader", "pages", "url", "save_dir", "video_docs", "news_docs",
            "text_splitter", "texts_chunks", "embedding_func", "a", "b", "db", "query",
            "docs", "MODEL_NAME", "quantization_config", "llm", "template", "prompt",
            "qa_chain", "result"}

PdfPath == "PDF_DIRECTORY"
YoutubeUrl == "https://www.youtube.com/watch?v=jGwO_UgTS7I"
NewsUrl == "https://www.bnext.com.tw/article/76864/what-is-the-meaning-of-llm"

\* the value the assignment on `line` computes in namespace r
RagValue(line, r) ==
    CASE line = 50  -> <<PdfPath>>
      [] line = 53  -> <<"PyPDFLoader">> \o r["fiel_dir"]
      [] line = 54  -> <<"load">> \o r["loader"]
      [] line = 75  -> <<YoutubeUrl>>
      [] line = 76  -> <<"docs/youtube/">>
      [] line = 79  -> <<"GenericLoader", "YoutubeAudioLoader">> \o r["url"] \o r["save_dir"]
                           \o <<"OpenAIWhisperParser">>
      [] line = 82  -> <<"load">> \o r["loader"]
      [] line = 112 -> <<NewsUrl>>
      [] line = 115 -> <<"WebBaseLoader">> \o r["url"]
      [] line = 116 -> <<"load">> \o r["loader"]
      [] line = 161 -> <<"RecursiveCharacterTextSplitter", "chunk_size=200", "chunk_overlap=30">>
      [] line = 164 -> <<"split_documents">> \o r["news_docs"]
      [] line = 198 -> <<"HuggingFaceEmbeddings", "infgrad/stella-base-zh-v3-1792d">>
      [] line = 204 -> <<"embed_query", "headline 1">>
      [] line = 205 -> <<"embed_query", "headline 2">>
      [] line = 234 -> <<"Chroma.from_documents">> \o r["texts_chunks"] \o r["embedding_func"]
      [] line = 237 -> <<"What is an LLM model?">>
      [] line = 238 -> <<"similarity_search_with_score">> \o r["query"] \o r["db"]
      [] line = 261 -> <<"MediaTek-Research/Breeze-7B-Instruct-v0_1">>
      [] line = 265 -> <<"BitsAndBytesConfig", "nf4">>
      [] line = 272 -> <<"HuggingFacePipeline">> \o r["MODEL_NAME"]
      [] line = 288 -> <<"<s> {context} {question}">>
      [] line = 298 -> <<"PromptTemplate">> \o r["template"]
      [] line = 307 -> <<"RetrievalQA">> \o r["llm"] \o r["prompt"] \o r["db"]
      [] line = 314 -> <<"answer">> \o r["query"] \o r["qa_chain"]

----------------------------------------------------------------------------
(* The kernel.                                                             *)

Running == cur # "idle"
Stmt == Cell(cur)[pc]

\* the sequence the running for statement iterates over
Iterable(st) == IF st.op = "for5" THEN KList ELSE ranks
IsLoop(st) == st.op \in {"for5", "for10"}
Exhausted(st) == IsLoop(st) /\ it >= Len(Iterable(st))

\* where control goes after st has executed
NextPc(st) ==
    IF Exhausted(st) THEN st.exit
    ELSE IF st.goto # 0 THEN st.goto ELSE pc + 1

\* the user (or Run All) submits cell c: the kernel takes it when it is idle
Start(c) ==
    /\ cur = "idle"
    /\ cur' = c /\ pc' = 1 /\ it' = 0 /\ outcome' = "running" /\ out' = <<>>
    /\ ran' = ran \cup {c}
    /\ UNCHANGED <<gen, rng, bound, lrVals, precision, rag>>

\* an exception leaves the cell: nothing in the notebooks catches it
RaiseAndContinue(kind) ==
    /\ outcome' = kind
    /\ cur' = cur /\ pc' = pc + 1
    /\ UNCHANGED <<gen, rng, it, ran, bound, lrVals, precision, out, rag>>
Raise(kind) ==
    /\ outcome' = kind
    /\ cur' = "idle" /\ pc' = 0
    /\ UNCHANGED <<gen, rng, it, ran, bound, lrVals, precision, out, rag>>

\* the statement reads a name that is not bound: at once when the name is read
\* before any library call, after the calls before it returned otherwise
NameError ==
    /\ Running
    /\ ~(Stmt.reads \subseteq bound)
    /\ Raise("NameError")

\* a library call of the statement raises: the names read before the call are
\* bound, a name read after it may be unbound
LibraryError ==
    /\ Running
    /\ (Stmt.reads \ Stmt.late) \subseteq bound
    /\ Stmt.fails
    /\ Raise("LibraryError")

\* the statement executes
Exec ==
    /\ Running
    /\ Stmt.reads \subseteq bound
    /\ Stmt.op = "rand5" => CanDraw(rng, Dim5)
    /\ Stmt.op = "rand10" => CanDraw(rng, Dim10)
    /\ LET st  == Stmt
           op  == st.op
           npc == NextPc(st)
       IN  /\ IF npc > Len(Cell(cur))
              THEN cur' = "idle" /\ pc' = 0 /\ outcome' = "ok"
              ELSE cur' = cur /\ pc' = npc /\ outcome' = outcome
           /\ it' = IF IsLoop(st) THEN (IF Exhausted(st) THEN 0 ELSE it + 1) ELSE it
           /\ bound' = IF Exhausted(st) THEN bound ELSE bound \cup st.binds
           /\ rng' = CASE op = "seed"   -> seed0(rng)
                       [] op = "rand5"  -> AfterRand(rng, Dim5)
                       [] op = "rand10" -> AfterRand(rng, Dim10)
                       [] OTHER         -> rng
           /\ A' = CASE op = "rand5"  -> rand(rng, Dim5)
                     [] op = "rand10" -> rand(rng, Dim10)
                     [] OTHER         -> A
           /\ U'  = IF op = "svd" THEN svd(A).U ELSE U
           /\ S'  = IF op = "svd" THEN svd(A).S ELSE S
           /\ Vt' = IF op = "svd" THEN svd(A).Vt ELSE Vt
           /\ k' = IF IsLoop(st) /\ ~Exhausted(st) THEN Iterable(st)[it + 1] ELSE k
           /\ S_k' = IF op = "diag" THEN DiagTake(S, k) ELSE S_k
           /\ A_k' = IF op = "trunc" THEN Truncate(U, S_k, Vt, k) ELSE A_k
           /\ error' = IF op = "norm" THEN ReconError(A, A_k) ELSE error
           /\ errors' = CASE op = "errors0" -> <<>>
                          [] op = "append"  -> Append(errors, error)
                          [] OTHER          -> errors
           /\ ranks' = IF op = "ranks" THEN range(1, Dim10 + 1) ELSE ranks
           /\ precision' = IF op = "set_printoptions" THEN DemoPrecision ELSE precision
           /\ out' = CASE op = "print_text" -> Append(out, <<"text", st.arg>>)
                       [] op = "print_fk"   -> Append(out, <<"text", st.arg, k>>)
                       [] op = "print_A"    -> Append(out, <<"array", Format(A, precision)>>)
                       [] op = "print_Ak"   -> Append(out, <<"array", Format(A_k, precision)>>)
                       [] op = "plot"       -> Append(out, <<"plot", ranks, errors>>)
                       [] op = "print"      -> Append(out, <<"text", st.arg>>)
                       [] op = "display"    -> Append(out, <<"text", "Out">>)
                       [] OTHER             -> out
           /\ rag' = IF op = "assign"
                     THEN [rag EXCEPT ![CHOOSE n \in st.binds : TRUE] = RagValue(st.line, rag)]
                     ELSE rag
    /\ UNCHANGED <<gen, ran>>

Step == NameError \/ LibraryError \/ Exec

----------------------------------------------------------------------------
(* A fresh kernel: nothing is bound, numpy prints with its default         *)
(* precision, and the generator stands at the start of the stream the      *)
(* operating system seeded it with.                                        *)

InitNamespace ==
    /\ cur = "idle" /\ pc = 0 /\ it = 0 /\ outcome = "ok"
    /\ ran = {}
    /\ bound = {}
    /\ A = <<>> /\ U = <<>> /\ S = <<>> /\ Vt = <<>> /\ k = 0
    /\ S_k = <<>> /\ A_k = <<>> /\ error = 0 /\ errors = <<>> /\ ranks = <<>>
    /\ precision = DefaultPrecision
    /\ out = <<>>
    /\ rag = [n \in RagVars |-> <<>>]

InitRR ==
    /\ rrA = <<>> /\ rrM = <<>> /\ rrRow = 0 /\ rrCol = 0 /\ rrDone = TRUE

InitSp ==
    /\ spDocs = <<>> /\ spChunks = <<>> /\ spEvents = <<>> /\ spDone = TRUE

\* the low-rank notebook in its kernel
InitLowRank ==
    /\ gen \in OsStreams
    /\ rng = FreshGenerator
    /\ InitNamespace
    /\ InitRR
    /\ InitSp
NextLowRank ==
    \/ \E c \in SeqToSet(LowRankCells) : Start(c) /\ UNCHANGED <<rrVars, spVars>>
    \/ NameError /\ UNCHANGED <<rrVars, spVars>>
    \/ Exec /\ UNCHANGED <<rrVars, spVars>>
SpecLowRank == InitLowRank /\ [][NextLowRank]_vars

----------------------------------------------------------------------------
(* The documented way to compute a rank (part_000, line 61): reduce the    *)
(* matrix to row-echelon form by elementary row operations and count the   *)
(* non-zero rows.  The reduction works column by column: pick the first    *)
(* row at or below the current one with a non-zero entry in the column,    *)
(* swap it up, and clear the column below it.  Clearing row i takes        *)
(* pivot * row_i - entry_i * pivot_row, which stays in the integers and    *)
(* is row_i - 4 row_1 when the pivot is 1, as in the documented example.   *)

\* largest side of a matrix whose rank is computed
MaxDim == 2
\* largest entry of such a matrix
MaxEntry == 1
Entries == (-1)..MaxEntry

\* the example of lines 30-35 and its row-echelon form of lines 41-45
ExampleA == << <<1, 2, 3>>, <<4, 5, 6>>, <<7, 8, 9>> >>
ExampleEchelon == << <<1, 2, 3>>, <<0, -3, -6>>, <<0, 0, 0>> >>

HasPivot(M, r, c) == \E p \in r..Rows(M) : M[p][c] # 0
PivotRow(M, r, c) == CHOOSE p \in r..Rows(M) :
                        M[p][c] # 0 /\ \A q \in r..(p - 1) : M[q][c] = 0
SwapRows(M, i, j) == [M EXCEPT ![i] = M[j], ![j] = M[i]]
\* clear column c below row r
ElimOnlyNext(M, r, c) ==
    Tup([i \in 1..Rows(M) |->
        IF i # r + 1 THEN M[i]
        ELSE Tup([j \in 1..Cols(M) |-> M[r][c] * M[i][j] - M[i][c] * M[r][j]])])
ElimFromPivot(M, r, c) ==
    Tup([i \in 1..Rows(M) |->
        IF i < r THEN M[i]
        ELSE Tup([j \in 1..Cols(M) |-> M[r][c] * M[i][j] - M[i][c] * M[r][j]])])
ElimBelowAdd(M, r, c) ==
    Tup([i \in 1..Rows(M) |->
        IF i <= r THEN M[i]
        ELSE Tup([j \in 1..Cols(M) |-> M[r][c] * M[i][j] + M[i][c] * M[r][j]])])
ElimBelow(M, r, c) ==
    Tup([i \in 1..Rows(M) |->
        IF i <= r THEN M[i]
        ELSE Tup([j \in 1..Cols(M) |-> M[r][c] * M[i][j] - M[i][c] * M[r][j]])])

\* one column of the reduction, from pivot position (r, c)
ColStep(M, r, c) ==
    IF ~HasPivot(M, r, c) THEN [M |-> M, r |-> r, c |-> c + 1]
    ELSE [M |-> ElimBelow(SwapRows(M, r, PivotRow(M, r, c)), r, c),
          r |-> r + 1, c |-> c + 1]

Reduced(M, r, c) == r > Rows(M) \/ c > Cols(M)

RECURSIVE Echelon(_, _, _)
Echelon(M, r, c) ==
    IF Reduced(M, r, c) THEN M
    ELSE LET n == ColStep(M, r, c) IN Echelon(n.M, n.r, n.c)

NonZeroRows(M) == Cardinality({i \in 1..Rows(M) : \E j \in 1..Cols(M) : M[i][j] # 0})
\* the rank: the number of non-zero rows of the row-echelon form
Rank(M) == NonZeroRows(Echelon(M, 1, 1))

Matrices(m, n) == [1..m -> [1..n -> Entries]]
RankInputs == {ExampleA} \cup UNION {Matrices(m, n) : m \in 1..MaxDim, n \in 1..MaxDim}

\* a reduction step on the working matrix
ReduceColumn ==
    /\ ~rrDone
    /\ ~Reduced(rrM, rrRow, rrCol)
    /\ LET n == ColStep(rrM, rrRow, rrCol)
       IN  rrM' = n.M /\ rrRow' = n.r /\ rrCol' = n.c
    /\ UNCHANGED <<rrA, rrDone>>

\* no row or no column is left: the matrix is in row-echelon form
ReduceDone ==
    /\ ~rrDone
    /\ Reduced(rrM, rrRow, rrCol)
    /\ rrDone' = TRUE
    /\ UNCHANGED <<rrA, rrM, rrRow, rrCol>>

InitRank ==
    /\ rrA \in RankInputs
    /\ rrM = rrA /\ rrRow = 1 /\ rrCol = 1 /\ rrDone = FALSE
    /\ gen = OsStream(1)
    /\ rng = FreshGenerator
    /\ InitNamespace
    /\ InitSp
NextRank ==
    \/ ReduceColumn /\ UNCHANGED <<kernelVars, spVars>>
    \/ ReduceDone /\ UNCHANGED <<kernelVars, spVars>>
SpecRank == InitRank /\ [][NextRank]_vars

----------------------------------------------------------------------------
(* RecursiveCharacterTextSplitter(chunk_size, chunk_overlap) and            *)
(* split_documents (R3 notebook, lines 131-164).  A text is a sequence of   *)
(* characters; a piece or a chunk is the range lo..hi of the text it        *)
(* holds.  The splitter keeps each separator at the head of the piece that  *)
(* follows it, so the pieces of one split are adjacent ranges and joining   *)
(* them gives the range from the first to the last.                         *)

\* chunk_size (200 in the notebook)
ChunkSize == 5
\* chunk_overlap (30 in the notebook)
ChunkOverlap == 2
\* longest document text
MaxTextLen == 8

NL == "\n"
TAB == "\t"
\* a letter, a blank, a line break, and a tab: a whitespace character that is
\* in no separator
Chars == {"a", " ", NL, TAB}
\* what str.strip() removes: the blank, the line break, and the other whitespace
\* characters (tab, carriage return, form feed, the Unicode spaces), which the
\* splitter treats like the tab
Whitespace == {" ", NL, TAB, "\r", "\f"}
\* the splitter's separators, in its order: paragraph, line, word, character
Separators == << <<NL, NL>>, <<NL>>, <<" ">>, <<>> >>
NSep == Len(Separators)

Piece(lo, hi) == [lo |-> lo, hi |-> hi]
\* len(s)
PieceLen(p) == p.hi - p.lo + 1

\* the separator stands at position q of the text, inside the piece ending at hi
MatchAt(T, sep, q, hi) ==
    /\ q + Len(sep) - 1 <= hi
    /\ \A j \in 1..Len(sep) : T[q + j - 1] = sep[j]

\* the starts of the separator's occurrences from q on, leftmost first, not overlapping
RECURSIVE MatchStarts(_, _, _, _)
MatchStarts(T, sep, q, hi) ==
    IF q + Len(sep) - 1 > hi THEN <<>>
    ELSE IF MatchAt(T, sep, q, hi)
         THEN <<q>> \o MatchStarts(T, sep, q + Len(sep), hi)
         ELSE MatchStarts(T, sep, q + 1, hi)

\* the pieces of piece p split at the separator, the separator kept at the head
\* of the piece after it, empty pieces dropped; the empty separator gives one
\* piece per character
split_text_with_regex(T, p, sep) ==
    IF Len(sep) = 0
    THEN Tup([i \in 1..PieceLen(p) |-> Piece(p.lo + i - 1, p.lo + i - 1)])
    ELSE LET m == MatchStarts(T, sep, p.lo, p.hi)
             n == Len(m)
             raw == [i \in 1..(n + 1) |->
                        Piece(IF i = 1 THEN p.lo ELSE m[i - 1],
                              IF i = n + 1 THEN p.hi ELSE m[i] - 1)]
         IN  SelectSeq(raw, LAMBDA x : PieceLen(x) > 0)

\* separator number i is the empty one or occurs in piece p
Occurs(T, p, i) ==
    Len(Separators[i]) = 0 \/ Len(MatchStarts(T, Separators[i], p.lo, p.hi)) > 0

\* the separator a piece is split at: the first of the remaining ones (from
\* number `from` on) that occurs in it, the last one when none does
PickSeparator(T, p, from) ==
    IF \E i \in from..NSep : Occurs(T, p, i)
    THEN CHOOSE i \in from..NSep : Occurs(T, p, i) /\ \A j \in from..(i - 1) : ~Occurs(T, p, j)
    ELSE NSep

\* the separators left for the pieces of a split at separator i: those after
\* it; none after the empty separator or when no separator occurred
Remaining(T, p, i) ==
    IF Len(Separators[i]) = 0 \/ ~Occurs(T, p, i) THEN NSep + 1 ELSE i + 1

\* the separator put between merged pieces: none, the pieces carry theirs
SepLen == 0

\* text.strip() of the range lo..hi: <<>> when nothing is left
Strip(T, lo, hi) ==
    LET ink == {q \in lo..hi : T[q] \notin Whitespace}
    IN  IF ink = {} THEN <<>>
        ELSE <<Piece(CHOOSE q \in ink : \A r \in ink : q <= r,
                     CHOOSE q \in ink : \A r \in ink : q >= r)>>

\* _join_docs: the joined pieces, stripped; nothing when that is empty
JoinDocs(T, current) ==
    IF Len(current) = 0 THEN <<>> ELSE Strip(T, current[1].lo, current[Len(current)].hi)

\* adding a piece of length len to n pieces of total length `total` passes chunk_size
OverflowsAfter(total, len, n) == total > ChunkSize
Overflows(total, len, n) ==
    total + len + (IF n > 0 THEN SepLen ELSE 0) > ChunkSize

\* pieces leave the head of the chunk while more than chunk_overlap is kept,
\* or while the next piece still would not fit
KeepPoppingWhileTooLong(total, len, n) == Overflows(total, len, n) /\ total > 0
KeepPopping(total, len, n) ==
    total > ChunkOverlap \/ (Overflows(total, len, n) /\ total > 0)

RECURSIVE Pop(_, _, _)
Pop(current, total, len) ==
    IF KeepPopping(total, len, Len(current))
    THEN Pop(Tail(current),
             total - (PieceLen(current[1]) + (IF Len(current) > 1 THEN SepLen ELSE 0)),
             len)
    ELSE [current |-> current, total |-> total]

\* _merge_splits from piece number i on: docs are the chunks made so far,
\* current the pieces of the chunk being filled, total their length
RECURSIVE Merge(_, _, _, _, _, _)
Merge(T, splits, i, docs, current, total) ==
    IF i > Len(splits) THEN docs \o JoinDocs(T, current)
    ELSE LET d    == splits[i]
             len  == PieceLen(d)
             full == Overflows(total, len, Len(current))
             out1 == IF full /\ Len(current) > 0 THEN docs \o JoinDocs(T, current) ELSE docs
             kept == IF full /\ Len(current) > 0 THEN Pop(current, total, len)
                     ELSE [current |-> current, total |-> total]
             current2 == Append(kept.current, d)
         IN  Merge(T, splits, i + 1, out1, current2,
                   kept.total + len + (IF Len(current2) > 1 THEN SepLen ELSE 0))
MergeSplits(T, splits) == Merge(T, splits, 1, <<>>, <<>>, 0)

\* a piece shorter than chunk_size waits to be merged; any other is split again
IsGoodBelowOverlap(p) == PieceLen(p) < ChunkOverlap
IsGood(p) == PieceLen(p) < ChunkSize

\* _split_text(text, separators): the chunks of piece p, with the splits made.
\* Walk is its loop over the pieces: good holds the pieces waiting to be merged.
RECURSIVE SplitText(_, _, _)
RECURSIVE Walk(_, _, _, _, _, _)
SplitText(T, p, from) ==
    LET i      == PickSeparator(T, p, from)
        splits == split_text_with_regex(T, p, Separators[i])
        w      == Walk(T, splits, 1, <<>>, Remaining(T, p, i),
                       [chunks |-> <<>>, events |-> <<>>])
    IN  [chunks |-> w.chunks,
         events |-> <<[from |-> from, sep |-> i, lo |-> p.lo, hi |-> p.hi]>> \o w.events]
Walk(T, splits, i, good, rest, acc) ==
    IF i > Len(splits)
    THEN [acc EXCEPT !.chunks = IF Len(good) > 0 THEN @ \o MergeSplits(T, good) ELSE @]
    ELSE IF IsGood(splits[i])
    THEN Walk(T, splits, i + 1, Append(good, splits[i]), rest, acc)
    ELSE LET flushed == IF Len(good) > 0 THEN acc.chunks \o MergeSplits(T, good)
                        ELSE acc.chunks
             sub     == IF rest > NSep
                        THEN [chunks |-> <<splits[i]>>, events |-> <<>>]
                        ELSE SplitText(T, splits[i], rest)
         IN  Walk(T, splits, i + 1, <<>>, rest,
                  [chunks |-> flushed \o sub.chunks, events |-> acc.events \o sub.events])

\* split_text(text)
split_text(T) == SplitText(T, Piece(1, Len(T)), 1)

\* split_documents(docs): the chunks of each document in turn
RECURSIVE SplitDocs(_, _)
SplitDocs(docs, d) ==
    IF d > Len(docs) THEN [chunks |-> <<>>, events |-> <<>>]
    ELSE LET r    == split_text(docs[d])
             tag(s) == Tup([i \in 1..Len(s) |-> [doc |-> d] @@ s[i]])
             more == SplitDocs(docs, d + 1)
         IN  [chunks |-> tag(r.chunks) \o more.chunks,
              events |-> tag(r.events) \o more.events]

\* every text of up to n characters
Texts(n) == UNION {[1..m -> Chars] : m \in 0..n}

\* texts_chunks = text_splitter.split_documents(news_docs)
SplitDocuments ==
    /\ ~spDone
    /\ LET r == SplitDocs(spDocs, 1)
       IN  spChunks' = r.chunks /\ spEvents' = r.events
    /\ spDone' = TRUE
    /\ UNCHANGED spDocs

\* news_docs is the one document the web loader returned, of any text
InitSplit ==
    /\ \E t \in Texts(MaxTextLen) : spDocs = <<t>>
    /\ spChunks = <<>> /\ spEvents = <<>> /\ spDone = FALSE
    /\ gen = OsStream(1)
    /\ rng = FreshGenerator
    /\ InitNamespace
    /\ InitRR
NextSplit == SplitDocuments /\ UNCHANGED <<kernelVars, rrVars>>
SpecSplit == InitSplit /\ [][NextSplit]_vars

----------------------------------------------------------------------------
(* The RAG notebook in its kernel: cells are run in any order, any number  *)
(* of times, and every library call may raise.                             *)

InitRag ==
    /\ gen = OsStream(1)
    /\ rng = FreshGenerator
    /\ InitNamespace
    /\ InitRR
    /\ InitSp
NextRag ==
    \/ \E c \in SeqToSet(RagCells) : Start(c) /\ UNCHANGED <<rrVars, spVars>>
    \/ NameError /\ UNCHANGED <<rrVars, spVars>>
    \/ LibraryError /\ UNCHANGED <<rrVars, spVars>>
    \/ Exec /\ UNCHANGED <<rrVars, spVars>>
SpecRag == InitRag /\ [][NextRag]_vars

----------------------------------------------------------------------------
(* A session that executes both notebooks top to bottom in one kernel:     *)
(* each cell is submitted once, after the cells above it in its notebook,  *)
(* whether or not they raised.  Cells of the two notebooks interleave in   *)
(* any way.                                                                *)

\* cell number i of notebook nb is the next one to run
NextInOrder(nb, i) == nb[i] \notin ran /\ \A j \in 1..(i - 1) : nb[j] \in ran

RunNext(nb) ==
    \E i \in 1..Len(nb) : NextInOrder(nb, i) /\ Start(nb[i])

Init ==
    /\ gen = OsStream(1)
    /\ rng = FreshGenerator
    /\ InitNamespace
    /\ InitRR
    /\ InitSp
Next ==
    \/ RunNext(LowRankCells) /\ UNCHANGED <<rrVars, spVars>>
    \/ RunNext(RagCells) /\ UNCHANGED <<rrVars, spVars>>
    \/ NameError /\ UNCHANGED <<rrVars, spVars>>
    \/ LibraryError /\ UNCHANGED <<rrVars, spVars>>
    \/ Exec /\ UNCHANGED <<rrVars, spVars>>
Spec == Init /\ [][Next]_vars

----------------------------------------------------------------------------
(* Properties.                                                             *)

\* C1 (SpecLowRank): the reconstruction errors recorded by the error-plot
\* cell never increase with the rank: for ranks j < k, errors[k] <= errors[j].
C1_ErrorsNonIncreasing ==
    \A i \in 1..Len(errors), j \in 1..Len(errors) : i < j => errors[j] <= errors[i]
\* the loop has recorded every rank and the error falls strictly over the first ranks
C1_Witness ==
    /\ cur = "idle" /\ outcome = "ok"
    /\ Len(errors) = Dim10
    /\ errors[1] > errors[2] /\ errors[2] > errors[3]

\* x is zero to the first half of the digits carried
Negligible(x) == Abs(x) <= HalfHi

\* C2 (SpecLowRank): at k equal to the matrix side the truncation reproduces A
\* and the last recorded error is approximately 0: the entries of A_k - A and
\* the error are zero to half the digits carried.
C2_FullRankErrorZero ==
    /\ (cur = "plot10" /\ pc \in {9, 10} /\ k = Dim10) =>
           \A i \in 1..Dim10, j \in 1..Dim10 : Negligible(A_k[i][j] - A[i][j])
    /\ Len(errors) = Dim10 => Negligible(errors[Dim10])
\* the loop has finished, and the errors of the ranks below the side are not near 0
C2_Witness ==
    /\ cur = "plot10" /\ pc = 11
    /\ Len(errors) = Dim10
    /\ ~Negligible(errors[1]) /\ ~Negligible(errors[Dim10 - 1])

\* the errors the error-plot cell computes from the seeded matrix
SeedErrors ==
    Tup([r \in 1..Dim10 |->
        ReconError(SeedMatrix(Dim10),
                   Truncate(SeedSvd.plot10.U, DiagTake(SeedSvd.plot10.S, r), SeedSvd.plot10.Vt, r))])

\* the arrays of the output recorded in the notebook (lines 90-94, 98-102 and
\* 106-110), in hundredths
RecordedA ==
    << <<55, 72, 60, 54, 42>>,
       <<65, 44, 89, 96, 38>>,
       <<79, 53, 57, 93, 7>>,
       <<9, 2, 83, 78, 87>>,
       <<98, 80, 46, 78, 12>> >>
RecordedRank1 ==
    << <<57, 47, 60, 73, 32>>,
       <<72, 58, 76, 92, 40>>,
       <<65, 52, 68, 82, 36>>,
       <<52, 42, 55, 66, 29>>,
       <<68, 55, 71, 86, 37>> >>
RecordedRank3 ==
    << <<57, 70, 57, 55, 45>>,
       <<66, 43, 82, 100, 43>>,
       <<81, 51, 58, 91, 7>>,
       <<7, 3, 88, 76, 84>>,
       <<94, 82, 51, 77, 7>> >>
\* an array of hundredths in the units carried
Hundredths(M) ==
    Tup([i \in 1..Rows(M) |->
        Tup([j \in 1..Cols(M) |-> M[i][j] * Pow10(FracDigits - DemoPrecision)])])

\* C3 (SpecLowRank): each matrix cell seeds the generator before it draws, so
\* the A, U, S, Vt and errors it computes are those of the stream after seed(0),
\* whatever the generator's state was and whichever cells ran before; at two
\* decimals the matrix and its rank-1 and rank-3 truncations are the recorded ones.
C3_SeedFixesValues ==
    /\ (cur = "svd5" /\ pc > 2) =>
           /\ A = SeedMatrix(Dim5)
           /\ Format(A, DemoPrecision) = Hundredths(RecordedA)
    /\ (cur = "svd5" /\ pc > 6) =>
           /\ U = SeedSvd.svd5.U
           /\ S = SeedSvd.svd5.S
           /\ Vt = SeedSvd.svd5.Vt
    /\ (cur = "svd5" /\ pc \in 11..13) =>
           Format(A_k, DemoPrecision)
               = Hundredths(IF k = KList[1] THEN RecordedRank1 ELSE RecordedRank3)
    /\ (cur = "plot10" /\ pc > 2) => A = SeedMatrix(Dim10)
    /\ (cur = "plot10" /\ pc > 3) =>
           /\ U = SeedSvd.plot10.U
           /\ S = SeedSvd.plot10.S
           /\ Vt = SeedSvd.plot10.Vt
    /\ (cur = "plot10" /\ pc > 10) => errors = SeedErrors
\* the error-plot cell ends after the demonstration cell ran
C3_Witness ==
    /\ cur = "plot10" /\ pc = 17
    /\ precision = DemoPrecision
    /\ ~Negligible(errors[1])

\* C5 (SpecRag): a library call that raises ends the cell's execution at that
\* statement and leaves every binding as it was; the call is not made again.
C5_ErrorPropagates ==
    [][(Running /\ outcome' = "LibraryError") =>
           /\ cur' = "idle"
           /\ bound' = bound
           /\ rag' = rag]_vars
\* WebBaseLoader(url) raised after the PDF cell had bound loader: loader keeps
\* the PDF loader, news_docs stays unbound
C5_Witness ==
    /\ cur = "idle" /\ outcome = "LibraryError"
    /\ rag["url"] = <<NewsUrl>>
    /\ rag["loader"] = <<"PyPDFLoader", PdfPath>>
    /\ "news_docs" \notin bound

Binds(c) == UNION {Cell(c)[i].binds : i \in 1..Len(Cell(c))}
\* every cell above cell number i of the RAG notebook has executed its assignments
AboveExecuted(i) == \A j \in 1..(i - 1) : Binds(RagCells[j]) \subseteq bound
\* the answer of the pipeline: Q&A over the retriever of the vector store built
\* from the embedded chunks of the split, loaded article
PipelineAnswer ==
    <<"answer", "What is an LLM model?",
      "RetrievalQA", "HuggingFacePipeline", "MediaTek-Research/Breeze-7B-Instruct-v0_1",
      "PromptTemplate", "<s> {context} {question}",
      "Chroma.from_documents", "split_documents", "load", "WebBaseLoader", NewsUrl,
      "HuggingFaceEmbeddings", "infgrad/stella-base-zh-v3-1792d">>

\* C6 (SpecRag): when the cells above a cell have executed, every name the
\* cell's statements read is bound, and the answer is computed by the stages in
\* the order loading, splitting, embedding and storage, retrieval, Q&A.
C6_TopDownReadsBound ==
    /\ \A i \in 1..Len(RagCells) :
           (cur = RagCells[i] /\ AboveExecuted(i)) => Stmt.reads \subseteq bound
    /\ "result" \in bound => rag["result"] = PipelineAnswer
\* the last cell has answered after every cell above it executed
C6_Witness ==
    /\ cur = "idle" /\ outcome = "ok"
    /\ AboveExecuted(Len(RagCells))
    /\ "result" \in bound

BindsOf(nb) == UNION {Binds(c) : c \in SeqToSet(nb)}
\* C7 (Spec): the notebooks use disjoint names; a statement of one notebook
\* reads no name the other binds and leaves the other's bindings and values
\* unchanged.
C7_NotebooksShareNoState ==
    /\ [](/\ LowRankNames \cap RagNames = {}
          /\ (Running /\ cur \in SeqToSet(LowRankCells)) =>
                 Stmt.reads \cap BindsOf(RagCells) = {}
          /\ (Running /\ cur \in SeqToSet(RagCells)) =>
                 Stmt.reads \cap BindsOf(LowRankCells) = {})
    /\ [][/\ cur \in SeqToSet(LowRankCells) =>
                 /\ bound' \cap RagNames = bound \cap RagNames
                 /\ rag' = rag
          /\ cur \in SeqToSet(RagCells) =>
                 /\ bound' \cap LowRankNames = bound \cap LowRankNames
                 /\ lrVals' = lrVals
                 /\ rng' = rng /\ precision' = precision]_vars
\* the error-plot loop runs while the RAG notebook's documents are bound
C7_Witness ==
    /\ cur = "plot10" /\ pc = 9
    /\ "news_docs" \in bound /\ "loader" \in bound
    /\ "A_k" \in bound

\* C8 (SpecRank): row reduction of the documented example gives the documented
\* row-echelon form, with two non-zero rows: rank 2.
C8_ExampleRankTwo ==
    (rrDone /\ rrA = ExampleA) => (rrM = ExampleEchelon /\ NonZeroRows(rrM) = 2)
C8_Witness == rrDone /\ rrA = ExampleA /\ rrRow = 3

\* C9 (SpecRank): the rank computed by row reduction is at most the number of
\* rows and at most the number of columns.
C9_RankAtMostMinDim ==
    rrDone => NonZeroRows(rrM) <= Min(Rows(rrA), Cols(rrA))
\* more rows than columns, and the rank reaches the number of columns
C9_Witness ==
    /\ rrDone
    /\ Rows(rrA) > Cols(rrA)
    /\ NonZeroRows(rrM) = Cols(rrA)

\* C10 (SpecRank): the rank computed by row reduction equals the rank of the
\* transpose computed the same way.
C10_RowRankIsColumnRank ==
    rrDone => NonZeroRows(rrM) = Rank(Transpose(rrA))
\* a matrix that is not its own transpose, of rank 1
C10_Witness ==
    /\ rrDone
    /\ Rows(rrA) = 2 /\ Cols(rrA) = 2
    /\ rrA[1][2] # rrA[2][1]
    /\ NonZeroRows(rrM) = 1

\* the matrix has only zero entries
IsZeroMatrix(M) == \A i \in 1..Rows(M), j \in 1..Cols(M) : M[i][j] = 0

\* C11 (SpecRank): the rank computed by row reduction is 0 exactly when every
\* entry of the matrix is 0.
C11_RankZeroIffZeroMatrix ==
    rrDone => (NonZeroRows(rrM) = 0 <=> IsZeroMatrix(rrA))
\* the reduction of the 2x2 zero matrix has ended, with no pivot found
C11_Witness ==
    /\ rrDone
    /\ Rows(rrA) = 2 /\ Cols(rrA) = 2
    /\ IsZeroMatrix(rrA)
    /\ rrRow = 1 /\ rrCol = 3

\* C12 (SpecSplit): every chunk split_documents returns has at most chunk_size
\* characters, whatever the document's text.
C12_ChunksWithinChunkSize ==
    spDone => \A i \in 1..Len(spChunks) : PieceLen(spChunks[i]) <= ChunkSize
\* a text longer than chunk_size was split into several chunks, one of them full
C12_Witness ==
    /\ spDone
    /\ Len(spDocs[1]) > ChunkSize
    /\ Len(spChunks) >= 2
    /\ \E i \in 1..Len(spChunks) : PieceLen(spChunks[i]) = ChunkSize

\* the number of characters of the document two chunks share
Shared(c1, c2) == Cardinality((c1.lo..c1.hi) \cap (c2.lo..c2.hi))
\* chunks number i and i + 1 come from the same document
Consecutive(i) == i < Len(spChunks) /\ spChunks[i].doc = spChunks[i + 1].doc

\* C13 as stated: consecutive chunks of a document share chunk_overlap characters.
C13_OverlapIsChunkOverlap ==
    spDone => \A i \in 1..Len(spChunks) :
                 Consecutive(i) => Shared(spChunks[i], spChunks[i + 1]) = ChunkOverlap
\* C13 (SpecSplit), amended: consecutive chunks of a document share at most
\* chunk_overlap characters, the tail of one being the head of the next; they
\* can share fewer, or none.
C13_OverlapAtMostChunkOverlap ==
    spDone => \A i \in 1..Len(spChunks) :
                 Consecutive(i) =>
                     /\ Shared(spChunks[i], spChunks[i + 1]) <= ChunkOverlap
                     /\ spChunks[i].lo <= spChunks[i + 1].lo
                     /\ spChunks[i].hi <= spChunks[i + 1].hi
\* three chunks: the first two share chunk_overlap characters, the last two none
C13_Witness ==
    /\ spDone
    /\ Len(spChunks) = 3
    /\ Shared(spChunks[1], spChunks[2]) = ChunkOverlap
    /\ Shared(spChunks[2], spChunks[3]) = 0

\* the piece an event split
EventPiece(e) == Piece(e.lo, e.hi)
EventText(e) == spDocs[e.doc]

\* the pieces an event's split gave
EventSplits(e) == split_text_with_regex(EventText(e), EventPiece(e), Separators[e.sep])

\* C14 as stated: a piece is split in two or more at the line separator, or at
\* the word separator after it, only if it is longer than chunk_size.
C14_LaterSeparatorOnlyWhenLonger ==
    spDone => \A n \in 1..Len(spEvents) :
                 (spEvents[n].sep \in 2..(NSep - 1) /\ Len(EventSplits(spEvents[n])) > 1) =>
                     PieceLen(EventPiece(spEvents[n])) > ChunkSize
\* C14 (SpecSplit), amended: the separators are tried in their fixed order.  The
\* whole text is split at the first separator that occurs in it, whatever its
\* length; a piece of a split is split again only when its length is at least
\* chunk_size, and then at the first separator after its parent's that occurs
\* in it.
C14_FallbackOrder ==
    spDone => \A n \in 1..Len(spEvents) :
        LET e == spEvents[n]
        IN  /\ e.from <= e.sep
            /\ Occurs(EventText(e), EventPiece(e), e.sep)
            /\ \A j \in e.from..(e.sep - 1) : ~Occurs(EventText(e), EventPiece(e), j)
            /\ e.from = 1 => (e.lo = 1 /\ e.hi = Len(EventText(e)))
            /\ e.from > 1 =>
                   /\ PieceLen(EventPiece(e)) >= ChunkSize
                   /\ \E m \in 1..(n - 1) :
                          /\ spEvents[m].doc = e.doc
                          /\ spEvents[m].sep = e.from - 1
                          /\ spEvents[m].lo <= e.lo /\ e.hi <= spEvents[m].hi
\* one piece went down the whole list: paragraph, line, word, character
C14_Witness ==
    /\ spDone
    /\ Len(spEvents) = NSep
    /\ \A n \in 1..NSep : spEvents[n].sep = n
    /\ PieceLen(EventPiece(spEvents[NSep])) > ChunkSize

\* the error of the rank-r truncation of the matrix being decomposed
RankError(r) == ReconError(A, Truncate(U, DiagTake(S, r), Vt, r))

\* C15 (SpecLowRank): the error-plot loop runs once per rank 1..10 and stops:
\* inside iteration number it, k = it and it - 1 errors are recorded; after the
\* loop errors and ranks have 10 entries each, ranks = 1..10 in ascending order,
\* errors[r] is the error of the rank-r truncation, and what is plotted is
\* these two sequences.
C15_LoopRecordsOneErrorPerRank ==
    /\ (cur = "plot10" /\ pc \in 7..10) =>
           /\ it \in 1..Dim10
           /\ k = it
           /\ Len(errors) = it - 1
    /\ (cur = "plot10" /\ pc >= 11) =>
           /\ it = 0
           /\ Len(errors) = Dim10 /\ Len(ranks) = Dim10
           /\ \A r \in 1..Dim10 : ranks[r] = r /\ errors[r] = RankError(r)
    /\ \A n \in 1..Len(out) :
           out[n][1] = "plot" =>
               /\ out[n][2] = ranks /\ out[n][3] = errors
               /\ Len(out[n][2]) = Len(out[n][3])
\* the plot of a matrix whose errors are not all 0 has been drawn
C15_Witness ==
    /\ cur = "plot10" /\ pc = 13
    /\ k = Dim10
    /\ Len(out) = 1 /\ out[1][1] = "plot" /\ Len(out[1][3]) = Dim10
    /\ errors[1] > 0

\* the numerical rank (np.linalg.matrix_rank): the number of singular values
\* that are not near 0
Significant(s) == Cardinality({i \in 1..Len(s) : ~Negligible(s[i])})
NumRank(M) == Significant(svd(M).S)

\* the truncation of the running iteration has been computed
TruncatedIn5 == cur = "svd5" /\ pc \in 11..13
TruncatedIn10 == cur = "plot10" /\ pc \in 9..10

\* C16 (SpecLowRank): for every k the loops use (1 and 3 in the demonstration
\* cell, 1..10 in the error-plot cell) the factors U[:, :k], diag(S[:k]) and
\* Vt[:k, :] have inner dimension k, their product A_k has the shape of A, and
\* the numerical rank of A_k is at most k.
C16_TruncationHasRankAtMostK ==
    /\ TruncatedIn5 => k \in {1, 3}
    /\ TruncatedIn10 => k \in 1..Dim10
    /\ (TruncatedIn5 \/ TruncatedIn10) =>
           /\ Rows(TakeCols(U, k)) = Rows(A) /\ Cols(TakeCols(U, k)) = k
           /\ S_k = DiagTake(S, k) /\ Rows(S_k) = k /\ Cols(S_k) = k
           /\ Rows(TakeRows(Vt, k)) = k /\ Cols(TakeRows(Vt, k)) = Cols(A)
           /\ Rows(A_k) = Rows(A) /\ Cols(A_k) = Cols(A)
           /\ NumRank(A_k) <= k
\* the rank-1 truncation of the matrix, which has full rank, is about to be printed
C16_Witness ==
    /\ cur = "svd5" /\ pc = 12
    /\ k = 1
    /\ NumRank(A) = Dim5
    /\ NumRank(A_k) = 1

\* the output recorded in the notebook (lines 89-112): every array at two decimals
RecordedOutput ==
    << <<"text", "full-rank = Original Matrix A:">>,
       <<"array", Hundredths(RecordedA)>>,
       <<"text", "\n">>,
       <<"text", "Rank {k} approximation:", 1>>,
       <<"array", Hundredths(RecordedRank1)>>,
       <<"text", "\n">>,
       <<"text", "Rank {k} approximation:", 3>>,
       <<"array", Hundredths(RecordedRank3)>>,
       <<"text", "\n">> >>
\* an execution of the demonstration cell completes
Svd5Completes == cur = "svd5" /\ cur' = "idle" /\ outcome' = "ok"

\* C17 (SpecLowRank): every execution of the demonstration cell, the first in a
\* fresh kernel and any later one, prints the same text, the one recorded in the
\* notebook.
C17_PrintsRecordedOutput ==
    [][Svd5Completes => out' = RecordedOutput]_vars

\* C18 (SpecRag): in whatever order, and however often, the three loading cells
\* are executed, pages is what the PDF loader loaded from PDF_DIRECTORY,
\* video_docs what the YouTube loader loaded from the video's URL, and news_docs
\* what the web loader loaded from the article's URL.
C18_LoadersOrderIndependent ==
    /\ "pages" \in bound => rag["pages"] = <<"load", "PyPDFLoader", PdfPath>>
    /\ "video_docs" \in bound =>
           rag["video_docs"] = <<"load", "GenericLoader", "YoutubeAudioLoader", YoutubeUrl,
                                 "docs/youtube/", "OpenAIWhisperParser">>
    /\ "news_docs" \in bound => rag["news_docs"] = <<"load", "WebBaseLoader", NewsUrl>>
\* the three cells ran bottom to top: the web cell first, the PDF cell last, so
\* url holds the video's URL and loader the PDF loader
C18_Witness ==
    /\ cur = "idle" /\ outcome = "ok"
    /\ ran = {"pdf", "youtube", "web"}
    /\ {"pages", "video_docs", "news_docs"} \subseteq bound
    /\ rag["url"] = <<YoutubeUrl>>
    /\ rag["loader"] = <<"PyPDFLoader", PdfPath>>
====
